---- MODULE Spec2Model ----
(***************************************************************************)
(* A model of the two chess programs of rusty-walk:                        *)
(*   chess_example  -- the text program, with the move rules               *)
(*   chess          -- the graphical program, with the placeholder rules   *)
(*                                                                         *)
(* board, current_turn   ChessBoard's fields (both programs)               *)
(* selected_square       MainState.selected_square (graphical program)     *)
(* arg_from, arg_to      the arguments of make_move: main's parsed         *)
(*                       positions in the text program, the selected and   *)
(*                       the clicked square in the graphical program       *)
(* ret                   what make_move returned                           *)
(* pc                    main's position in its loop                       *)
(* accepted, clicks      history: calls of make_move that returned true,   *)
(*                       mouse events handled                              *)
(***************************************************************************)
EXTENDS Integers, Sequences, FiniteSets, TLC

VARIABLES board, current_turn, selected_square, arg_from, arg_to, ret, pc, accepted, clicks

vars == <<board, current_turn, selected_square, arg_from, arg_to, ret, pc, accepted, clicks>>

(* ---------- bounds ---------- *)
\* accepted moves of one session
MaxMoves == 2
\* the text session is played on the files 0..MaxSessionFile
MaxSessionFile == 1
\* the arbitrary boards have their pieces on the files 0..MaxFile
MaxFile == 2
\* mouse events of one graphical session
MaxClicks == 3

(* ---------- data model ---------- *)
Ranks == 0..7
Files == 0..7
Squares == Ranks \X Files

PieceType == {"King", "Queen", "Rook", "Bishop", "Knight", "Pawn"}
Color == {"White", "Black"}
Piece == [piece_type : PieceType, color : Color]

(* Option<T>: None is the empty sequence, Some(x) the one-element sequence *)
None == <<>>
Some(x) == <<x>>
is_none(o) == o = None
is_some(o) == o # None
unwrap(o) == o[1]

Abs(x) == IF x < 0 THEN -x ELSE x

(* board[r][f]; an index outside the grid panics, which index_reads records *)
at(b, sq) == IF sq \in Squares THEN b[sq] ELSE None

piece_order == <<"Rook", "Knight", "Bishop", "Queen", "King", "Bishop", "Knight", "Rook">>

new ==
    [sq \in Squares |->
        CASE sq[1] = 1 -> Some([piece_type |-> "Pawn", color |-> "White"])
          [] sq[1] = 6 -> Some([piece_type |-> "Pawn", color |-> "Black"])
          [] sq[1] = 0 -> Some([piece_type |-> piece_order[sq[2] + 1], color |-> "White"])
          [] sq[1] = 7 -> Some([piece_type |-> piece_order[sq[2] + 1], color |-> "Black"])
          [] OTHER -> None]

(* as_usize as a saturating cast, the way Rust casts a float *)
as_usize_saturating(x) == IF x < 0 THEN 0 ELSE x

(* `x as usize` of an i32: a negative x wraps to the top of usize. The modulus *)
(* stands for 2^64, which TLC's integers do not hold; what the rules read is  *)
(* only that the wrapped value is no rank of the grid.                        *)
UsizeModulus == 2^30
as_usize(x) == x % UsizeModulus

is_valid_rook_move(from, to) == from[1] = to[1] \/ from[2] = to[2]

is_valid_knight_move(from, to) ==
    LET dx == Abs(to[1] - from[1])
        dy == Abs(to[2] - from[2])
    IN (dx = 2 /\ dy = 1) \/ (dx = 1 /\ dy = 2)

is_valid_bishop_move(from, to) ==
    LET dx == Abs(to[1] - from[1])
        dy == Abs(to[2] - from[2])
    IN dx = dy

is_valid_queen_move(from, to) ==
    is_valid_rook_move(from, to) \/ is_valid_bishop_move(from, to)

is_valid_king_move(from, to) ==
    LET dx == Abs(to[1] - from[1])
        dy == Abs(to[2] - from[2])
    IN dx <= 1 /\ dy <= 1

(* is_valid_pawn_move with a double step that does not look at the square it passes *)
is_valid_pawn_move_jump(b, from, to, color) ==
    LET direction == IF color = "White" THEN 1 ELSE -1
        start_row == IF color = "White" THEN 1 ELSE 6
        forward == from[1] + direction
        double_forward == from[1] + 2 * direction
    IN IF to[1] = forward /\ to[2] = from[2] /\ is_none(b[to])
       THEN TRUE
       ELSE IF from[1] = start_row /\ to[1] = double_forward /\ to[2] = from[2]
       THEN is_none(b[to])
       ELSE IF to[1] = forward /\ Abs(to[2] - from[2]) = 1
       THEN is_some(b[to])
       ELSE FALSE

is_valid_pawn_move(b, from, to, color) ==
    LET direction == IF color = "White" THEN 1 ELSE -1
        start_row == IF color = "White" THEN 1 ELSE 6
        forward == as_usize(from[1] + direction)
        double_forward == as_usize(from[1] + 2 * direction)
    IN IF to[1] = forward /\ to[2] = from[2] /\ is_none(b[to])
       THEN TRUE
       ELSE IF from[1] = start_row /\ to[1] = double_forward /\ to[2] = from[2]
       THEN is_none(at(b, <<forward, from[2]>>)) /\ is_none(b[to])
       ELSE IF to[1] = forward /\ Abs(to[2] - from[2]) = 1
       THEN is_some(b[to])
       ELSE FALSE

(* is_valid_move as the graphical program has it *)
is_valid_move_placeholder(b, turn, from, to) == TRUE

(* is_valid_move without the look at the destination's colour *)
is_valid_move_no_self_capture(b, turn, from, to) ==
    IF from = to THEN FALSE
    ELSE IF is_none(b[from]) THEN FALSE
    ELSE LET piece == unwrap(b[from]) IN
       IF piece.color # turn THEN FALSE
       ELSE CASE piece.piece_type = "Pawn" -> is_valid_pawn_move(b, from, to, piece.color)
              [] piece.piece_type = "Rook" -> is_valid_rook_move(from, to)
              [] piece.piece_type = "Knight" -> is_valid_knight_move(from, to)
              [] piece.piece_type = "Bishop" -> is_valid_bishop_move(from, to)
              [] piece.piece_type = "Queen" -> is_valid_queen_move(from, to)
              [] piece.piece_type = "King" -> is_valid_king_move(from, to)

is_valid_move(b, turn, from, to) ==
    IF from = to THEN FALSE
    ELSE IF is_none(b[from]) THEN FALSE
    ELSE LET piece == unwrap(b[from]) IN
       IF piece.color # turn THEN FALSE
       ELSE IF is_some(b[to]) /\ unwrap(b[to]).color = piece.color THEN FALSE
       ELSE CASE piece.piece_type = "Pawn" -> is_valid_pawn_move(b, from, to, piece.color)
              [] piece.piece_type = "Rook" -> is_valid_rook_move(from, to)
              [] piece.piece_type = "Knight" -> is_valid_knight_move(from, to)
              [] piece.piece_type = "Bishop" -> is_valid_bishop_move(from, to)
              [] piece.piece_type = "Queen" -> is_valid_queen_move(from, to)
              [] piece.piece_type = "King" -> is_valid_king_move(from, to)


(* the grid indices is_valid_pawn_move evaluates, in the order of its && chains *)
pawn_index_reads(b, from, to, color) ==
    LET direction == IF color = "White" THEN 1 ELSE -1
        start_row == IF color = "White" THEN 1 ELSE 6
        forward == as_usize(from[1] + direction)
        double_forward == as_usize(from[1] + 2 * direction)
        normal == IF to[1] = forward /\ to[2] = from[2] THEN {to} ELSE {}
    IN IF to[1] = forward /\ to[2] = from[2] /\ is_none(at(b, to))
       THEN normal
       ELSE IF from[1] = start_row /\ to[1] = double_forward /\ to[2] = from[2]
       THEN normal \cup {<<forward, from[2]>>}
                   \cup (IF is_none(at(b, <<forward, from[2]>>)) THEN {to} ELSE {})
       ELSE IF to[1] = forward /\ Abs(to[2] - from[2]) = 1
       THEN normal \cup {to}
       ELSE normal

(* the grid indices is_valid_move evaluates *)
index_reads(b, turn, from, to) ==
    IF from = to THEN {}
    ELSE IF is_none(at(b, from)) THEN {from}
    ELSE LET piece == unwrap(at(b, from)) IN
       IF piece.color # turn THEN {from}
       ELSE IF is_some(at(b, to)) /\ unwrap(at(b, to)).color = piece.color THEN {from, to}
       ELSE IF piece.piece_type = "Pawn"
       THEN {from, to} \cup pawn_index_reads(b, from, to, piece.color)
       ELSE {from, to}

(* make_move that leaves current_turn as it was *)
make_move_no_flip(b, turn, from, to) ==
    IF ~is_valid_move(b, turn, from, to)
    THEN [board |-> b, current_turn |-> turn, ret |-> FALSE]
    ELSE [board |-> [[b EXCEPT ![to] = b[from]] EXCEPT ![from] = None],
          current_turn |-> turn,
          ret |-> TRUE]

(* make_move that does not ask is_valid_move *)
make_move_unchecked(b, turn, from, to) ==
    [board |-> [[b EXCEPT ![to] = b[from]] EXCEPT ![from] = None],
     current_turn |-> IF turn = "White" THEN "Black" ELSE "White",
     ret |-> TRUE]

(* make_move that copies the piece and does not empty the square it left *)
make_move_keep_from(b, turn, from, to) ==
    IF ~is_valid_move(b, turn, from, to)
    THEN [board |-> b, current_turn |-> turn, ret |-> FALSE]
    ELSE [board |-> [b EXCEPT ![to] = b[from]],
          current_turn |-> IF turn = "White" THEN "Black" ELSE "White",
          ret |-> TRUE]

(* ChessBoard::make_move of the text program: the board, the turn and the result *)
make_move(b, turn, from, to) ==
    IF ~is_valid_move(b, turn, from, to)
    THEN [board |-> b, current_turn |-> turn, ret |-> FALSE]
    ELSE [board |-> [[b EXCEPT ![to] = b[from]] EXCEPT ![from] = None],
          current_turn |-> IF turn = "White" THEN "Black" ELSE "White",
          ret |-> TRUE]

(* ---------- the text program's main loop ---------- *)
file_letters == <<"a", "b", "c", "d", "e", "f", "g", "h">>
rank_digits == <<"1", "2", "3", "4", "5", "6", "7", "8">>

(* a token is its two characters *)
Tokens(files) == {<<file_letters[f + 1], rank_digits[r + 1]>> : f \in files, r \in Ranks}

parse_position(input) ==
    IF Len(input) # 2 THEN None
    ELSE LET file == input[1]
             rank == input[2]
         IN IF ~(\E i \in 1..8 : file_letters[i] = file) \/ ~(\E i \in 1..8 : rank_digits[i] = rank)
            THEN None
            ELSE LET x == (CHOOSE i \in 1..8 : rank_digits[i] = rank) - 1
                     y == (CHOOSE i \in 1..8 : file_letters[i] = file) - 1
                 IN Some(<<x, y>>)

(* main: a line "from to" is read and both tokens parse *)
ReadMove(t1, t2) ==
    /\ pc = "prompt"
    /\ accepted < MaxMoves
    /\ is_some(parse_position(t1))
    /\ is_some(parse_position(t2))
    /\ arg_from' = parse_position(t1)
    /\ arg_to' = parse_position(t2)
    /\ pc' = "parsed"
    /\ UNCHANGED <<board, current_turn, selected_square, ret, accepted, clicks>>

(* main: board.make_move(from, to) *)
MakeMove ==
    /\ pc = "parsed"
    /\ LET f == unwrap(arg_from)
           t == unwrap(arg_to)
           r == make_move(board, current_turn, f, t)
       IN IF ~(index_reads(board, current_turn, f, t) \subseteq Squares)
          THEN /\ pc' = "panicked"
               /\ UNCHANGED <<board, current_turn, ret, accepted>>
          ELSE /\ board' = r.board
               /\ current_turn' = r.current_turn
               /\ ret' = r.ret
               /\ accepted' = IF r.ret THEN accepted + 1 ELSE accepted
               /\ pc' = "returned"
    /\ UNCHANGED <<selected_square, arg_from, arg_to, clicks>>

(* main: the loop goes round; from, to and the result go out of scope *)
Continue ==
    /\ pc = "returned"
    /\ pc' = "prompt"
    /\ arg_from' = None
    /\ arg_to' = None
    /\ ret' = FALSE
    /\ UNCHANGED <<board, current_turn, selected_square, accepted, clicks>>

InitBoard(b, turn) ==
    /\ board = b
    /\ current_turn = turn
    /\ selected_square = None
    /\ ret = FALSE
    /\ accepted = 0
    /\ clicks = 0

(* a session of the text program on the files 0..MaxSessionFile *)
Init ==
    /\ InitBoard(new, "White")
    /\ arg_from = None
    /\ arg_to = None
    /\ pc = "prompt"

SessionTokens == Tokens(0..MaxSessionFile)

Next ==
    \/ \E t1 \in SessionTokens, t2 \in SessionTokens : ReadMove(t1, t2)
    \/ MakeMove
    \/ Continue

Spec == Init /\ [][Next]_vars

(* ---------- make_move called once on an arbitrary board ---------- *)
OptionPiece == {None} \cup {Some(p) : p \in Piece}
AnySquares == Ranks \X (0..MaxFile)
Sign(x) == IF x < 0 THEN -1 ELSE IF x > 0 THEN 1 ELSE 0
(* the square next to f on f's file, towards t's rank *)
Toward(f, t) == <<f[1] + Sign(t[1] - f[1]), f[2]>>
(* what stands on the destination and on the square in between: the rules read *)
(* only their colour and whether they are there                                *)
Targets == {None} \cup {Some([piece_type |-> "Queen", color |-> c]) : c \in Color}
Blockers == {None} \cup {Some([piece_type |-> "Knight", color |-> c]) : c \in Color}

EmptyBoard == [sq \in Squares |-> None]

(* pf on f, pt on t (when t is not f), blk in between (when that is neither) *)
AnyBoard(f, pf, t, pt, blk) ==
    [[[EmptyBoard EXCEPT ![Toward(f, t)] = blk] EXCEPT ![t] = pt] EXCEPT ![f] = pf]

InitAny ==
    \E f \in AnySquares, t \in AnySquares, pf \in OptionPiece, pt \in Targets,
       blk \in Blockers, turn \in Color :
        /\ InitBoard(AnyBoard(f, pf, t, pt, blk), turn)
        /\ arg_from = Some(f)
        /\ arg_to = Some(t)
        /\ pc = "parsed"

NextAny == MakeMove

SpecAny == InitAny /\ [][NextAny]_vars

(* ---------- the text program on the scenarios of the test section ---------- *)
(* the double steps of the sixteen pawns, and the rook from a1 to h1 *)
ScenarioLines ==
    {<<<<file_letters[f], "2">>, <<file_letters[f], "4">>>> : f \in 1..8}
    \cup {<<<<file_letters[f], "7">>, <<file_letters[f], "5">>>> : f \in 1..8}
    \cup {<<<<"a", "1">>, <<"h", "1">>>>}

NextScenario ==
    \/ \E line \in ScenarioLines : ReadMove(line[1], line[2])
    \/ MakeMove
    \/ Continue

SpecScenario == Init /\ [][NextScenario]_vars

(* ---------- the graphical program ---------- *)
square_size == 60

(* ChessBoard::is_valid_move of the graphical program *)
gui_is_valid_move(from, to) == TRUE

(* ChessBoard::make_move of the graphical program *)
gui_make_move(b, turn, from, to) ==
    IF ~gui_is_valid_move(from, to)
    THEN [board |-> b, current_turn |-> turn, ret |-> FALSE]
    ELSE [board |-> [[b EXCEPT ![to] = b[from]] EXCEPT ![from] = None],
          current_turn |-> IF turn = "White" THEN "Black" ELSE "White",
          ret |-> TRUE]

(* x and y are pixels of the window, so 7 - y / square_size does not underflow; *)
(* the division truncates                                                      *)
get_square_from_coords(x, y) ==
    LET file == x \div square_size
        rank == 7 - (y \div square_size)
    IN IF file < 8 /\ rank < 8 /\ rank >= 0 THEN Some(<<rank, file>>) ELSE None

(* the middle of each of the window's 8 x 8 squares *)
Pixels == {square_size * c + (square_size \div 2) : c \in 0..7}

mouse_button_down_event(button, x, y) ==
    /\ pc = "events"
    /\ clicks < MaxClicks
    /\ clicks' = clicks + 1
    /\ pc' = pc
    /\ LET sq == get_square_from_coords(x, y) IN
       IF button = "Left" /\ is_some(sq)
       THEN LET square == unwrap(sq) IN
            IF is_none(selected_square)
            THEN /\ selected_square' =
                        IF is_some(board[square]) THEN Some(square) ELSE selected_square
                 /\ UNCHANGED <<board, current_turn, arg_from, arg_to, ret, accepted>>
            ELSE LET r == gui_make_move(board, current_turn, unwrap(selected_square), square) IN
                 /\ arg_from' = selected_square
                 /\ arg_to' = sq
                 /\ board' = r.board
                 /\ current_turn' = r.current_turn
                 /\ ret' = r.ret
                 /\ accepted' = IF r.ret THEN accepted + 1 ELSE accepted
                 /\ selected_square' =
                        IF r.ret THEN None
                        ELSE IF is_some(r.board[square]) THEN Some(square) ELSE None
       ELSE UNCHANGED <<board, current_turn, selected_square, arg_from, arg_to, ret, accepted>>

InitGui ==
    /\ InitBoard(new, "White")
    /\ arg_from = None
    /\ arg_to = None
    /\ pc = "events"

NextGui ==
    \E button \in {"Left", "Right"}, x \in Pixels, y \in Pixels :
        mouse_button_down_event(button, x, y)

SpecGui == InitGui /\ [][NextGui]_vars

(* ---------- the properties ---------- *)
Opposite(c) == IF c = "White" THEN "Black" ELSE "White"
Count(b, c) == Cardinality({sq \in Squares : is_some(b[sq]) /\ unwrap(b[sq]).color = c})
Occupied(b) == {sq \in Squares : is_some(b[sq])}
HoldsPiece(b, sq, kind, c) ==
    is_some(b[sq]) /\ unwrap(b[sq]).piece_type = kind /\ unwrap(b[sq]).color = c
WhitePawn == Some([piece_type |-> "Pawn", color |-> "White"])
BlackPawn == Some([piece_type |-> "Pawn", color |-> "Black"])
(* main's call of make_move is the step from "parsed" *)
Calling == pc = "parsed" /\ pc' # "parsed"
StartRow(c) == IF c = "White" THEN 1 ELSE 6
LastRow(c) == IF c = "White" THEN 7 ELSE 0
Direction(c) == IF c = "White" THEN 1 ELSE -1

(* C1: a call of make_move that returns true leaves current_turn the opposite of *)
(* what it was; a call that returns false (is_valid_move was false) leaves       *)
(* current_turn and the 64 squares as they were; so from new() current_turn is   *)
(* White iff the number of accepted moves is even.                               *)
C1_TurnAlternation ==
    [][Calling =>
        /\ ret' = is_valid_move(board, current_turn, unwrap(arg_from), unwrap(arg_to))
        /\ ret' => current_turn' = Opposite(current_turn)
        /\ ~ret' => current_turn' = current_turn /\ board' = board
        /\ (current_turn' = "White") <=> (accepted' % 2 = 0)]_vars

C1_Witness ==
    pc = "returned" /\ ret /\ accepted = 2 /\ current_turn = "White"

(* C2 as claimed: make_move called with a `from` square that holds no piece *)
(* still flips current_turn.                                                *)
C2_FlipsOnEmptyFrom ==
    [][(Calling /\ is_none(board[unwrap(arg_from)])) => current_turn' # current_turn]_vars

(* C2 as amended: make_move asks is_valid_move itself; called with a `from` *)
(* square that holds no piece it returns false and changes neither the      *)
(* board nor current_turn.                                                  *)
C2_RejectsEmptyFrom ==
    [][(Calling /\ is_none(board[unwrap(arg_from)])) =>
        /\ pc' = "returned"
        /\ ret' = FALSE
        /\ current_turn' = current_turn
        /\ board' = board]_vars

C2_Witness ==
    /\ pc = "returned"
    /\ is_none(board[unwrap(arg_from)])
    /\ ~ret
    /\ arg_from # arg_to

(* C3 as claimed: on the board of new(), White to move, is_valid_move((0,0),(0,7)) *)
(* is true.                                                                        *)
C3_RookA1H1Accepted ==
    (/\ pc = "parsed"
     /\ board = new
     /\ current_turn = "White"
     /\ arg_from = Some(<<0, 0>>)
     /\ arg_to = Some(<<0, 7>>))
    => is_valid_move(board, current_turn, <<0, 0>>, <<0, 7>>)

(* C3 as amended: on the board of new(), White to move, is_valid_move((0,0),(0,7)) *)
(* is false, because (0,7) holds a White rook; the rook predicate, which looks at  *)
(* no square in between, accepts the pair, and make_move returns false and leaves  *)
(* the board as it is.                                                             *)
C3_RookA1H1Rejected ==
    /\ (board = new /\ current_turn = "White") =>
          /\ ~is_valid_move(board, current_turn, <<0, 0>>, <<0, 7>>)
          /\ is_valid_rook_move(<<0, 0>>, <<0, 7>>)
          /\ HoldsPiece(board, <<0, 7>>, "Rook", "White")
    /\ (pc = "returned" /\ accepted = 0 /\ arg_from = Some(<<0, 0>>) /\ arg_to = Some(<<0, 7>>)) =>
          ~ret /\ board = new /\ current_turn = "White"

C3_Witness ==
    /\ pc = "returned"
    /\ arg_from = Some(<<0, 0>>)
    /\ arg_to = Some(<<0, 7>>)
    /\ board = new
    /\ ~ret

(* C4: when `from` and `to` both hold pieces of one colour, is_valid_move is *)
(* false, whatever the kind of the piece at `from` and whoever is to move;   *)
(* from and to range over the squares of the call and the one between them,  *)
(* which are the squares that hold the pieces of an arbitrary board.         *)
C4_NoSelfCapture ==
    LET near == {unwrap(arg_from), unwrap(arg_to), Toward(unwrap(arg_from), unwrap(arg_to))}
    IN /\ \A f \in near, t \in near :
             (/\ is_some(board[f])
              /\ is_some(board[t])
              /\ unwrap(board[t]).color = unwrap(board[f]).color)
             => /\ ~is_valid_move(board, current_turn, f, t)
                /\ ~make_move(board, current_turn, f, t).ret
       /\ (/\ pc = "returned"
           /\ is_some(board[unwrap(arg_from)])
           /\ is_some(board[unwrap(arg_to)])
           /\ unwrap(board[unwrap(arg_from)]).color = unwrap(board[unwrap(arg_to)]).color)
          => ~ret

C4_Witness ==
    /\ pc = "returned"
    /\ arg_from # arg_to
    /\ HoldsPiece(board, unwrap(arg_from), "Rook", current_turn)
    /\ is_some(board[unwrap(arg_to)])
    /\ unwrap(board[unwrap(arg_to)]).color = current_turn
    /\ is_valid_rook_move(unwrap(arg_from), unwrap(arg_to))
    /\ ~ret

(* C5: is_valid_move(s, s) is false for every square s, empty or not, so *)
(* make_move(s, s) returns false and changes neither the board nor       *)
(* current_turn.                                                         *)
C5_NoNullMove ==
    /\ \A s \in Squares : ~is_valid_move(board, current_turn, s, s)
    /\ (pc = "parsed" /\ arg_from = arg_to) =>
          make_move(board, current_turn, unwrap(arg_from), unwrap(arg_to)) =
             [board |-> board, current_turn |-> current_turn, ret |-> FALSE]
    /\ (pc = "returned" /\ arg_from = arg_to) => ~ret /\ accepted = 0

C5_Witness ==
    /\ pc = "returned"
    /\ arg_from = arg_to
    /\ HoldsPiece(board, unwrap(arg_from), "King", current_turn)
    /\ ~ret

(* C6: for a pawn of the side to move on its start rank: if the square one step *)
(* forward holds a piece, the single step and the double step are rejected; if  *)
(* it is empty, the single step is accepted and the double step is accepted iff *)
(* the square two steps forward is empty.                                       *)
C6_PawnForward ==
    \A f \in Files :
        LET s == <<StartRow(current_turn), f>>
            one == <<StartRow(current_turn) + Direction(current_turn), f>>
            two == <<StartRow(current_turn) + 2 * Direction(current_turn), f>>
        IN HoldsPiece(board, s, "Pawn", current_turn) =>
              /\ is_some(board[one]) =>
                    /\ ~is_valid_move(board, current_turn, s, one)
                    /\ ~is_valid_move(board, current_turn, s, two)
              /\ is_none(board[one]) =>
                    /\ is_valid_move(board, current_turn, s, one)
                    /\ is_valid_move(board, current_turn, s, two) <=> is_none(board[two])

C6_Witness ==
    /\ pc = "returned"
    /\ HoldsPiece(board, unwrap(arg_from), "Pawn", current_turn)
    /\ unwrap(arg_from)[1] = StartRow(current_turn)
    /\ unwrap(arg_to) = <<StartRow(current_turn) + 2 * Direction(current_turn), unwrap(arg_from)[2]>>
    /\ is_some(board[<<StartRow(current_turn) + Direction(current_turn), unwrap(arg_from)[2]>>])
    /\ is_none(board[unwrap(arg_to)])
    /\ ~ret

(* C7: from new() every White double step (1,f)->(3,f) is accepted; after it *)
(* every Black double step (6,g)->(4,g) is accepted and every move of a      *)
(* White piece is rejected; after the Black one White is to move and the two *)
(* pawns stand on (3,f) and (4,g), with (1,f) and (6,g) empty.               *)
AfterDoubleSteps(f, g) ==
    [sq \in Squares |->
        IF sq = <<1, f>> \/ sq = <<6, g>> THEN None
        ELSE IF sq = <<3, f>> THEN WhitePawn
        ELSE IF sq = <<4, g>> THEN BlackPawn
        ELSE new[sq]]

C7_Opening ==
    /\ (accepted = 0 /\ pc \in {"prompt", "parsed"}) =>
          /\ board = new /\ current_turn = "White"
          /\ \A f \in Files : is_valid_move(board, current_turn, <<1, f>>, <<3, f>>)
          /\ \A f \in Files : make_move(board, current_turn, <<1, f>>, <<3, f>>).ret
    /\ \A f \in Files :
          (/\ pc = "returned" /\ accepted = 1 /\ ret
           /\ arg_from = Some(<<1, f>>) /\ arg_to = Some(<<3, f>>)) =>
              /\ current_turn = "Black"
              /\ board = [[new EXCEPT ![<<3, f>>] = WhitePawn] EXCEPT ![<<1, f>>] = None]
              /\ \A g \in Files : is_valid_move(board, current_turn, <<6, g>>, <<4, g>>)
              /\ \A s \in Occupied(board) : unwrap(board[s]).color = "White" =>
                    \A t \in Squares : ~is_valid_move(board, current_turn, s, t)
    /\ \A g \in Files :
          (/\ pc = "returned" /\ accepted = 2 /\ ret
           /\ arg_from = Some(<<6, g>>) /\ arg_to = Some(<<4, g>>)) =>
              /\ current_turn = "White"
              /\ \E f \in Files : board = AfterDoubleSteps(f, g)

C7_Witness ==
    /\ pc = "returned"
    /\ accepted = 2
    /\ current_turn = "White"
    /\ board = AfterDoubleSteps(4, 4)
    /\ arg_from = Some(<<6, 4>>)
    /\ arg_to = Some(<<4, 4>>)

(* C8 as claimed, of the graphical program: no move with from = to is accepted, *)
(* and the board loses a piece only when a piece that came from another square  *)
(* takes its place.                                                             *)
C8_NoPieceVanishes ==
    [][/\ accepted' # accepted => arg_from' # arg_to'
       /\ Cardinality(Occupied(board')) < Cardinality(Occupied(board)) =>
             /\ arg_from' # arg_to'
             /\ is_some(board[unwrap(arg_from')])
             /\ is_some(board[unwrap(arg_to')])
             /\ board'[unwrap(arg_to')] = board[unwrap(arg_from')]]_vars

(* C9: an accepted make_move(from, to) keeps the number of pieces of the side *)
(* that moves, takes one piece from the other side iff `to` was occupied,     *)
(* changes no square but `from` and `to`, empties `from` and puts its piece   *)
(* on `to`; so from new() no side ever has more than 16 pieces or gains one.  *)
C9_PieceConservation ==
    [][/\ (Calling /\ ret') =>
             LET f == unwrap(arg_from)
                 t == unwrap(arg_to)
             IN /\ Count(board', current_turn) = Count(board, current_turn)
                /\ Count(board', Opposite(current_turn)) =
                      Count(board, Opposite(current_turn)) - (IF is_some(board[t]) THEN 1 ELSE 0)
                /\ \A sq \in Squares \ {f, t} : board'[sq] = board[sq]
                /\ board'[f] = None
                /\ is_some(board[f])
                /\ board'[t] = board[f]
       /\ board' # board =>
             /\ Calling /\ ret'
             /\ \A c \in Color : Count(board', c) <= Count(board, c) /\ Count(board', c) <= 16]_vars

C9_Witness ==
    /\ pc = "returned"
    /\ ret
    /\ Count(board, "Black") = 15
    /\ Count(board, "White") = 16
    /\ HoldsPiece(board, unwrap(arg_to), "Rook", "White")

(* C10: with all four coordinates in 0..7, is_valid_move and make_move index  *)
(* the grid only at ranks and files in 0..7 and return a boolean; the pawn's  *)
(* forward rank is an index of its own only from the pawn's start rank, and a *)
(* pawn on the last rank of its direction has no legal move.                  *)
C10_NoOutOfRange ==
    /\ pc # "panicked"
    /\ pc = "parsed" =>
          LET f == unwrap(arg_from)
              t == unwrap(arg_to)
          IN /\ index_reads(board, current_turn, f, t) \subseteq Squares
             /\ is_valid_move(board, current_turn, f, t) \in BOOLEAN
             /\ (HoldsPiece(board, f, "Pawn", current_turn) /\ f[1] # StartRow(current_turn)) =>
                   index_reads(board, current_turn, f, t) \subseteq {f, t}
             /\ (HoldsPiece(board, f, "Pawn", current_turn) /\ f[1] = LastRow(current_turn)) =>
                   \A sq \in Squares :
                      /\ ~is_valid_move(board, current_turn, f, sq)
                      /\ index_reads(board, current_turn, f, sq) \subseteq Squares
    /\ (/\ pc = "returned"
        /\ HoldsPiece(board, unwrap(arg_from), "Pawn", current_turn)
        /\ unwrap(arg_from)[1] = LastRow(current_turn)) => ~ret

C10_Witness ==
    /\ pc = "returned"
    /\ current_turn = "Black"
    /\ HoldsPiece(board, unwrap(arg_from), "Pawn", "Black")
    /\ unwrap(arg_from)[1] = 0
    /\ unwrap(arg_to)[1] = 0
    /\ Abs(unwrap(arg_to)[2] - unwrap(arg_from)[2]) = 1
    /\ is_some(board[unwrap(arg_to)])
    /\ unwrap(board[unwrap(arg_to)]).color = "White"
    /\ ~ret
====
